---- MODULE Spec2Model ----
(***************************************************************************)
(* Model of the Claude Teams dashboard: the JSON loader (data_loader.py),  *)
(* the aggregation layer (analytics.py: UsageAnalytics and                 *)
(* SnapshotComparison) over pandas-style tables.                           *)
(*                                                                         *)
(* A DataFrame is a record [columns, rows]: the set of its column names    *)
(* and the sequence of its rows, each row a function from column name to   *)
(* value.  pd.DataFrame([]) has no columns at all, so selecting a column   *)
(* of a table built from an empty list raises KeyError; an operation that  *)
(* raises has the value Raise.  Python's None is NoneVal, a missing value  *)
(* of a left join is NaN.  A string that is searched or ordered is the     *)
(* sequence of its characters.                                             *)
(*                                                                         *)
(* Spec is the dashboard on its data directory: one operation per script   *)
(* run on a snapshot, the cumulative merge or a pair of snapshots.         *)
(* LoaderSpec is load_cumulative_data on data directories of any folder    *)
(* names, some of whose folders may fail to load.                          *)
(***************************************************************************)
EXTENDS Integers, Sequences, FiniteSets, TLC

\* ---------------------------------------------------------------- bounds
\* The organisation whose data is exported: its members and conversations.
UserIds == {1, 2}
ConvIds == {1, 2}
\* The chat turns (messages) of the platform are 1..MaxMsg.
MaxMsg == 3
\* Timestamps are integer ticks; a calendar date holds TicksPerDay ticks.
TicksPerDay == 3

MsgIds == 1..MaxMsg

\* A folder name is a string, written as the sequence of its parts: a prefix
\* (its rank in string order) and, when the name embeds a YYYY-MM-DD date,
\* that date (a day number) after it.  <<1, 2>> reads "data-<day 2>".
FolderNames == {<<1>>, <<1, 1>>, <<1, 2>>, <<2, 1>>, <<2, 2>>}

\* The data directory of the dashboard: two exports named alike, a day apart.
DataFolders == {<<1, 1>>, <<1, 2>>}

\* The data directories the loader is run on: up to two snapshot folders.
Directories == {D \in SUBSET FolderNames : Cardinality(D) <= 2}

\* Python's None, a raised exception, and the absent / present optional argument.
NoneVal == [none |-> TRUE]
Raise == [raised |-> TRUE]
Nothing == <<>>
Some(x) == <<x>>

VARIABLES store, result, session
vars == <<store, result, session>>

\* ------------------------------------------------------- generic helpers
SetMin(S) == CHOOSE x \in S : \A y \in S : x <= y
SetMax(S) == CHOOSE x \in S : \A y \in S : x >= y

RECURSIVE AscSeq(_)
AscSeq(S) == IF S = {} THEN <<>> ELSE <<SetMin(S)>> \o AscSeq(S \ {SetMin(S)})

\* Python's string order (a < b) on names: lexicographic, a prefix first.
RECURSIVE StrLess(_, _)
StrLess(a, b) ==
    IF a = <<>> THEN b # <<>>
    ELSE IF b = <<>> THEN FALSE
    ELSE IF Head(a) # Head(b) THEN Head(a) < Head(b)
    ELSE StrLess(Tail(a), Tail(b))

NameMax(S) == CHOOSE x \in S : \A y \in S \ {x} : StrLess(y, x)

\* list.sort(key=name, reverse=True)
RECURSIVE DescSeq(_)
DescSeq(S) == IF S = {} THEN <<>> ELSE <<NameMax(S)>> \o DescSeq(S \ {NameMax(S)})

RECURSIVE SumSeq(_)
SumSeq(s) == IF s = <<>> THEN 0 ELSE Head(s) + SumSeq(Tail(s))

RECURSIVE Concat(_)
Concat(ss) == IF ss = <<>> THEN <<>> ELSE Head(ss) \o Concat(Tail(ss))

Range(s) == {s[i] : i \in DOMAIN s}

Abs(n) == IF n < 0 THEN -n ELSE n

RECURSIVE Gcd(_, _)
Gcd(a, b) == IF b = 0 THEN a ELSE Gcd(b, a % b)

\* A Python number that may be fractional, as the reduced fraction num/den.
Frac(n, d) ==
    LET g == Gcd(Abs(n), Abs(d))
        s == IF d < 0 THEN -1 ELSE 1
    IN [num |-> (s * n) \div g, den |-> (s * d) \div g]

Num(n) == [num |-> n, den |-> 1]

\* The missing value of a float column (what a left join leaves unmatched).
NaN == [num |-> 0, den |-> 0]

\* Series.fillna(0) and Series.astype(int) on one value.
fillna0(v) == IF v = NaN THEN Num(0) ELSE v
astype_int(v) == v.num \div v.den

\* -------------------------------------------------- the exported content
\* The platform's content is fixed per identifier (a conversation keeps its
\* owner, a chat turn its conversation, sender and timestamp); the exports
\* differ in which users, conversations and turns they contain.
Owner(c) == ((c - 1) % Cardinality(UserIds)) + 1
ConvOf(m) == ((m - 1) % Cardinality(ConvIds)) + 1
\* The turns of a conversation alternate between the two roles.
Sender(m) ==
    IF ((m - 1) \div Cardinality(ConvIds)) % 2 = 0 THEN "human" ELSE "assistant"
Created(m) == (2 * m) % (MaxMsg + 2)

\* The display name of a member.
FullName(u) == <<"member", u>>

\* A string is the sequence of its characters.  The 'text' of a chat turn is
\* null (Nothing) or a string; its 'content' is a list of typed parts.
TextOf(m) ==
    CASE m % 4 = 1 -> [text |-> Some(<<"A", "b">>), content |-> <<>>]
      [] m % 4 = 2 -> [text |-> Nothing, content |-> <<>>]
      [] m % 4 = 3 -> [text |-> Some(<<>>),
                       content |-> <<[type |-> "text", text |-> <<"a", ".", "b">>]>>]
      [] OTHER -> [text |-> Some(<<>>),
                   content |-> <<[type |-> "image", text |-> <<>>]>>]

TurnJson(m) ==
    [uuid |-> m, sender |-> Sender(m), created_at |-> Created(m),
     text |-> TextOf(m).text, content |-> TextOf(m).content]

ConvJson(c, ms) ==
    [uuid |-> c,
     account |-> [uuid |-> Owner(c)],
     chat_messages |->
        LET mine == AscSeq({m \in ms : ConvOf(m) = c})
        IN [i \in DOMAIN mine |-> TurnJson(mine[i])]]

\* users.json and conversations.json of one snapshot folder.
SnapshotJson(us, cs, ms) ==
    [users |-> LET u == AscSeq(us)
               IN [i \in DOMAIN u |-> [uuid |-> u[i], full_name |-> FullName(u[i])]],
     conversations |->
        LET c == AscSeq(cs) IN [i \in DOMAIN c |-> ConvJson(c[i], ms)]]

Docs ==
    {SnapshotJson(us, cm[1], cm[2]) :
        us \in SUBSET UserIds,
        cm \in {x \in (SUBSET ConvIds) \X (SUBSET MsgIds) :
                    \A m \in x[2] : ConvOf(m) \in x[1]}}

\* A folder whose users.json or conversations.json cannot be read or parsed.
Corrupt == [corrupt |-> TRUE]

JsonFiles == {"users.json", "conversations.json"}

\* An export one file of which is not valid JSON or not of the expected
\* shape, the other file being intact.
Malformed(doc, file) ==
    [users |-> doc.users, conversations |-> doc.conversations, malformed |-> file]

\* A subdirectory that lacks one of the two files, and an entry of the base
\* path that is a plain file.
Lacking(file) == [lacks |-> file]
NotADirectory == [plain_file |-> TRUE]

\* The export with every member, conversation and chat turn.
FullDoc == SnapshotJson(UserIds, ConvIds, MsgIds)

\* The folders find_snapshot_folders accepts but load_all fails on, and the
\* entries it passes over.
Unloadable == {Corrupt} \cup {Malformed(FullDoc, file) : file \in JsonFiles}
NotSnapshots == {Lacking(file) : file \in JsonFiles} \cup {NotADirectory}

\* The store of a base path that does not exist: the path itself, the empty
\* relative name, is marked absent.
NoDirectory == (<<>> :> [absent |-> TRUE])

\* self.base_path.exists(), and the entries base_path.iterdir() yields.
base_path_exists == <<>> \notin DOMAIN store
Entries == IF base_path_exists THEN DOMAIN store ELSE {}

\* folder.is_dir(), and (folder / file).exists()
is_dir(folder) == "plain_file" \notin DOMAIN store[folder]
file_exists(folder, file) ==
    /\ is_dir(folder)
    /\ "lacks" \in DOMAIN store[folder] => store[folder].lacks # file

\* json.load of one file of a folder succeeds and gives the expected shape.
Parses(folder, file) ==
    /\ file_exists(folder, file)
    /\ store[folder] # Corrupt
    /\ "malformed" \in DOMAIN store[folder] => store[folder].malformed # file

\* The snapshot folders under the data directory: the subdirectories that
\* hold both files.
Folders == {f \in Entries : \A file \in JsonFiles : file_exists(f, file)}

\* ------------------------------------------------------------ DataFrames
\* pd.DataFrame(records): the columns are the keys of the records, so an
\* empty list gives a table without columns.
DataFrame(records) ==
    [columns |-> UNION {DOMAIN records[i] : i \in DOMAIN records},
     rows |-> records]

HasColumn(df, col) == col \in df.columns

\* The rows of df whose column col has a value of the set vals (df[df[col].isin(vals)]).
RowsIn(df, col, vals) == SelectSeq(df.rows, LAMBDA r : r[col] \in vals)

\* The values of one column, in row order.
ColumnValues(df, col) == [i \in DOMAIN df.rows |-> df.rows[i][col]]

\* df[name] = value: adds a column to every row (and to a table without rows).
WithColumn(df, name, value) ==
    [columns |-> df.columns \cup {name},
     rows |-> [i \in DOMAIN df.rows |-> df.rows[i] @@ (name :> value)]]

\* pd.concat(frames, ignore_index=True): union of the columns, rows in order.
PdConcat(frames) ==
    [columns |-> UNION {frames[i].columns : i \in DOMAIN frames},
     rows |-> Concat([i \in DOMAIN frames |-> frames[i].rows])]

\* df.drop_duplicates(subset=[key], keep='first').
RECURSIVE KeepFirst(_, _, _)
KeepFirst(rows, key, seen) ==
    IF rows = <<>> THEN <<>>
    ELSE IF Head(rows)[key] \in seen THEN KeepFirst(Tail(rows), key, seen)
    ELSE <<Head(rows)>> \o KeepFirst(Tail(rows), key, seen \cup {Head(rows)[key]})

\* drop_duplicates that keeps every row.
drop_duplicates_keeps_all(df, key) == df

drop_duplicates(df, key) ==
    IF df.rows = <<>> THEN df
    ELSE IF ~HasColumn(df, key) THEN Raise
    ELSE [columns |-> df.columns, rows |-> KeepFirst(df.rows, key, {})]

\* ---------------------------------------------------------------- loader
\* The tables keep the columns the aggregations read: the identifiers, the
\* owner, message_count, sender and created_at.
\* DataLoader.load_users: the user objects as rows, uuid renamed to user_uuid.
load_users(doc) ==
    DataFrame([i \in DOMAIN doc.users |->
        [user_uuid |-> doc.users[i].uuid, full_name |-> doc.users[i].full_name]])

\* ' '.join(texts)
RECURSIVE JoinSpace(_)
JoinSpace(texts) ==
    IF texts = <<>> THEN <<>>
    ELSE IF Len(texts) = 1 THEN Head(texts)
    ELSE Head(texts) \o <<" ">> \o JoinSpace(Tail(texts))

\* The text of a chat turn: its 'text', or when that is null or empty and
\* the turn has content parts, the joined text of the parts of type 'text'.
msg_text(msg) ==
    IF msg.text \in {Nothing, Some(<<>>)} /\ msg.content # <<>>
    THEN LET parts == SelectSeq(msg.content, LAMBDA c : c.type = "text")
         IN Some(JoinSpace([i \in DOMAIN parts |-> parts[i].text]))
    ELSE msg.text

\* conv_records whose message_count counts only the turns that have a text.
conv_records_counts_texts(doc) ==
    [i \in DOMAIN doc.conversations |->
        LET conv == doc.conversations[i] IN
        [conv_uuid |-> conv.uuid,
         user_uuid |-> conv.account.uuid,
         message_count |->
            Len(SelectSeq(conv.chat_messages, LAMBDA msg : msg.text # Nothing))]]

conv_records(doc) ==
    [i \in DOMAIN doc.conversations |->
        LET conv == doc.conversations[i] IN
        [conv_uuid |-> conv.uuid,
         user_uuid |-> conv.account.uuid,
         message_count |-> Len(conv.chat_messages)]]

msg_records(doc) ==
    Concat([i \in DOMAIN doc.conversations |->
        LET conv == doc.conversations[i] IN
        [k \in DOMAIN conv.chat_messages |->
            LET msg == conv.chat_messages[k] IN
            [msg_uuid |-> msg.uuid,
             conv_uuid |-> conv.uuid,
             user_uuid |-> conv.account.uuid,
             sender |-> msg.sender,
             text |-> msg_text(msg),
             created_at |-> msg.created_at]]])

\* DataLoader._extract_date_from_folder: the embedded date, None without one.
_extract_date_from_folder(folder_name) ==
    IF Len(folder_name) >= 2 THEN Some(folder_name[2]) ELSE Nothing

\* load_all that returns the tables read before the failure: the users
\* table with empty conversation and message tables when users.json was
\* read and conversations.json is malformed.
load_all_keeps_partial(folder) ==
    IF ~Parses(folder, "users.json") THEN Raise
    ELSE IF ~Parses(folder, "conversations.json") /\ "users" \notin DOMAIN store[folder]
    THEN Raise
    ELSE IF ~Parses(folder, "conversations.json")
    THEN [users |-> load_users(store[folder]),
          conversations |-> DataFrame(<<>>),
          messages |-> DataFrame(<<>>),
          snapshot_name |-> folder,
          snapshot_date |-> _extract_date_from_folder(folder)]
    ELSE [users |-> load_users(store[folder]),
          conversations |-> DataFrame(conv_records(store[folder])),
          messages |-> DataFrame(msg_records(store[folder])),
          snapshot_name |-> folder,
          snapshot_date |-> _extract_date_from_folder(folder)]

\* DataLoader.load_all: the three tables of one snapshot folder.
load_all(folder) ==
    IF ~Parses(folder, "users.json") THEN Raise
    ELSE IF ~Parses(folder, "conversations.json") THEN Raise
    ELSE [users |-> load_users(store[folder]),
          conversations |-> DataFrame(conv_records(store[folder])),
          messages |-> DataFrame(msg_records(store[folder])),
          snapshot_name |-> folder,
          snapshot_date |-> _extract_date_from_folder(folder)]

\* find_snapshot_folders that asks for users.json only.
find_snapshot_folders_users_only ==
    DescSeq({f \in Entries : file_exists(f, "users.json")})

\* MultiSnapshotLoader.find_snapshot_folders: newest folder name first.
find_snapshot_folders == DescSeq(Folders)

\* load_cumulative_data: the rows of every snapshot that loads, tagged with
\* the folder name, concatenated in the order of find_snapshot_folders and
\* de-duplicated on the identifier; a folder that fails to load is skipped.
load_cumulative_data ==
    LET found == find_snapshot_folders
        folders == SelectSeq(found, LAMBDA f : load_all(f) # Raise)
        loaded == [i \in DOMAIN folders |-> load_all(folders[i])]
        tagged(t) == PdConcat([i \in DOMAIN folders |->
                        WithColumn(loaded[i][t], "snapshot", folders[i])])
        merged_users == drop_duplicates(tagged("users"), "user_uuid")
        merged_conversations == drop_duplicates(tagged("conversations"), "conv_uuid")
        merged_messages == drop_duplicates(tagged("messages"), "msg_uuid")
    IN IF found = <<>> THEN NoneVal
       ELSE IF folders = <<>> THEN NoneVal
       ELSE IF Raise \in {merged_users, merged_conversations, merged_messages} THEN Raise
       ELSE [users |-> merged_users,
             conversations |-> merged_conversations,
             messages |-> merged_messages,
             snapshot_name |-> "cumulative",
             snapshot_date |-> Nothing]

\* MultiSnapshotLoader.load_all_snapshots: the snapshots that load, by folder
\* name, and the newest of them as the current one; a folder whose load
\* raises is reported and left out.
load_all_snapshots ==
    LET folders == find_snapshot_folders
        loaded == {folders[i] : i \in {j \in DOMAIN folders : load_all(folders[j]) # Raise}}
    IN [snapshots |-> [f \in loaded |-> load_all(f)],
        current_snapshot |-> IF loaded = {} THEN Nothing ELSE Some(NameMax(loaded))]

\* MultiSnapshotLoader.load_single_snapshot: None when the path does not
\* exist or its load raises.
load_single_snapshot(folder_name) ==
    IF folder_name \notin Entries THEN NoneVal
    ELSE IF load_all(folder_name) = Raise THEN NoneVal
    ELSE load_all(folder_name)

\* load_from_uploaded_files, given the two files of a folder: the tables
\* without a snapshot name, None when anything in the conversion raises.
load_from_uploaded_files(folder) ==
    IF ~Parses(folder, "users.json") THEN NoneVal
    ELSE IF ~Parses(folder, "conversations.json") THEN NoneVal
    ELSE [users |-> load_users(store[folder]),
          conversations |-> DataFrame(conv_records(store[folder])),
          messages |-> DataFrame(msg_records(store[folder])),
          snapshot_name |-> <<>>,
          snapshot_date |-> Nothing]

\* What an analytics object is built on: one snapshot folder or the merge.
Cumulative == <<"cumulative">>
Snapshot(folder) == <<"snapshot", folder>>

Dataset(d) == IF d = Cumulative THEN load_cumulative_data ELSE load_all(d[2])

Loadable(d) == Dataset(d) \notin {Raise, NoneVal}

\* ------------------------------------------------------- UsageAnalytics
\* conversations.groupby('user_uuid').agg(count of conv_uuid, sum of message_count):
\* the aggregate of user u, a key of the grouping.
conv_counts(convs, u) ==
    LET mine == SelectSeq(convs, LAMBDA r : r.user_uuid = u)
    IN [total_conversations |-> Len(mine),
        total_messages |-> SumSeq([i \in DOMAIN mine |-> mine[i].message_count])]

\* messages.groupby(['user_uuid', 'sender']).size().unstack(fill_value=0): one cell.
msg_by_sender(msgs, u, s) ==
    Len(SelectSeq(msgs, LAMBDA r : r.user_uuid = u /\ r.sender = s))

\* UsageAnalytics.get_user_summary
get_user_summary(data) ==
    IF ~HasColumn(data.conversations, "user_uuid") THEN Raise
    ELSE IF ~HasColumn(data.users, "user_uuid") THEN Raise
    ELSE
    LET convs == data.conversations.rows
        msgs == data.messages.rows
        conv_index == {convs[i].user_uuid : i \in DOMAIN convs}
        msg_index == {msgs[i].user_uuid : i \in DOMAIN msgs}
        \* the sender columns exist only when the message table has rows
        sender_cols == IF Len(msgs) > 0 THEN {msgs[i].sender : i \in DOMAIN msgs} ELSE {}
        left_conv(u, col) ==
            IF u \in conv_index THEN Num(conv_counts(convs, u)[col]) ELSE NaN
        left_msg(u, s) ==
            IF u \in msg_index THEN Num(msg_by_sender(msgs, u, s)) ELSE NaN
        row(user) ==
            user
            @@ [col \in {"total_conversations", "total_messages"} |->
                    astype_int(fillna0(left_conv(user.user_uuid, col)))]
            @@ [s \in sender_cols |->
                    IF s \in {"human", "assistant"}
                    THEN astype_int(fillna0(left_msg(user.user_uuid, s)))
                    ELSE fillna0(left_msg(user.user_uuid, s))]
    IN [columns |-> data.users.columns
                    \cup {"total_conversations", "total_messages"} \cup sender_cols,
        rows |-> [i \in DOMAIN data.users.rows |-> row(data.users.rows[i])]]

\* .dt.date of a timestamp
DateOf(t) == t \div TicksPerDay

\* get_daily_usage with the two aggregates swapped: 'messages' counts the
\* distinct users of the date and 'active_users' its messages.
get_daily_usage_swapped(data, start_date, end_date) ==
    IF Len(data.messages.rows) = 0
    THEN [columns |-> {"date", "messages", "active_users"}, rows |-> <<>>]
    ELSE
    LET df0 == data.messages.rows
        df1 == IF start_date # Nothing
               THEN SelectSeq(df0, LAMBDA r : r.created_at >= start_date[1]) ELSE df0
        df == IF end_date # Nothing
              THEN SelectSeq(df1, LAMBDA r : r.created_at <= end_date[1]) ELSE df1
        dates == AscSeq({DateOf(df[i].created_at) : i \in DOMAIN df})
        group(d) == SelectSeq(df, LAMBDA r : DateOf(r.created_at) = d)
    IN [columns |-> {"date", "messages", "active_users"},
        rows |-> [i \in DOMAIN dates |->
            [date |-> dates[i],
             messages |-> Cardinality(
                {group(dates[i])[k].user_uuid : k \in DOMAIN group(dates[i])}),
             active_users |-> Len(group(dates[i]))]]]

\* get_daily_usage with the end of the range excluded (created_at < end_date).
get_daily_usage_end_excluded(data, start_date, end_date) ==
    IF Len(data.messages.rows) = 0
    THEN [columns |-> {"date", "messages", "active_users"}, rows |-> <<>>]
    ELSE
    LET df0 == data.messages.rows
        df1 == IF start_date # Nothing
               THEN SelectSeq(df0, LAMBDA r : r.created_at >= start_date[1]) ELSE df0
        df == IF end_date # Nothing
              THEN SelectSeq(df1, LAMBDA r : r.created_at < end_date[1]) ELSE df1
        dates == AscSeq({DateOf(df[i].created_at) : i \in DOMAIN df})
        group(d) == SelectSeq(df, LAMBDA r : DateOf(r.created_at) = d)
    IN [columns |-> {"date", "messages", "active_users"},
        rows |-> [i \in DOMAIN dates |->
            [date |-> dates[i],
             messages |-> Len(group(dates[i])),
             active_users |-> Cardinality(
                {group(dates[i])[k].user_uuid : k \in DOMAIN group(dates[i])})]]]

\* UsageAnalytics.get_daily_usage(start_date, end_date)
get_daily_usage(data, start_date, end_date) ==
    IF Len(data.messages.rows) = 0
    THEN [columns |-> {"date", "messages", "active_users"}, rows |-> <<>>]
    ELSE
    LET df0 == data.messages.rows
        df1 == IF start_date # Nothing
               THEN SelectSeq(df0, LAMBDA r : r.created_at >= start_date[1]) ELSE df0
        df == IF end_date # Nothing
              THEN SelectSeq(df1, LAMBDA r : r.created_at <= end_date[1]) ELSE df1
        dates == AscSeq({DateOf(df[i].created_at) : i \in DOMAIN df})
        group(d) == SelectSeq(df, LAMBDA r : DateOf(r.created_at) = d)
    IN [columns |-> {"date", "messages", "active_users"},
        rows |-> [i \in DOMAIN dates |->
            [date |-> dates[i],
             messages |-> Len(group(dates[i])),
             active_users |-> Cardinality(
                {group(dates[i])[k].user_uuid : k \in DOMAIN group(dates[i])})]]]

\* The calendar.  Day number 0 is Sunday 2024-12-29, the 364th day of a leap
\* year; ISO weekdays run from 1 (Monday) to 7 (Sunday).
Epoch == [year |-> 2024, ordinal |-> 364, weekday |-> 7]

IsLeap(y) == (y % 4 = 0 /\ y % 100 # 0) \/ y % 400 = 0
DaysInYear(y) == IF IsLeap(y) THEN 366 ELSE 365

RECURSIVE CivilDate(_, _)
CivilDate(y, ordinal) ==
    IF ordinal > DaysInYear(y) THEN CivilDate(y + 1, ordinal - DaysInYear(y))
    ELSE [year |-> y, ordinal |-> ordinal]

\* The calendar year and the day of the year of day number n.
DateOfDay(n) == CivilDate(Epoch.year, Epoch.ordinal + n)
Weekday(n) == ((Epoch.weekday - 1 + n) % 7) + 1

\* The weekday of 1 January, from a date of that year.
Jan1Weekday(ordinal, weekday) == ((weekday - ordinal + 371) % 7) + 1

\* An ISO year has 53 weeks when it starts on a Thursday, or on a Wednesday
\* in a leap year.
WeeksInYear(y, jan1) == IF jan1 = 4 \/ (IsLeap(y) /\ jan1 = 3) THEN 53 ELSE 52

\* Timestamp.isocalendar(): the ISO year and ISO week of day number n.
isocalendar(n) ==
    LET d == DateOfDay(n)
        wd == Weekday(n)
        w == (d.ordinal - wd + 10) \div 7
        jan1 == Jan1Weekday(d.ordinal, wd)
        prev_jan1 == Jan1Weekday(DaysInYear(d.year - 1) + 1, jan1)
    IN IF w < 1
       THEN [year |-> d.year - 1, week |-> WeeksInYear(d.year - 1, prev_jan1)]
       ELSE IF w > WeeksInYear(d.year, jan1) THEN [year |-> d.year + 1, week |-> 1]
       ELSE [year |-> d.year, week |-> w]

\* UsageAnalytics.get_weekly_usage: 'week' is the ISO week of the timestamp,
\* 'year' its calendar year (.dt.year).
get_weekly_usage(data) ==
    IF Len(data.messages.rows) = 0
    THEN [columns |-> {"year", "week", "messages", "active_users"}, rows |-> <<>>]
    ELSE
    LET df == data.messages.rows
        week(r) == isocalendar(DateOf(r.created_at)).week
        year(r) == DateOfDay(DateOf(r.created_at)).year
        \* the group keys (year, week) in sorted order
        keys == AscSeq({year(df[i]) * 100 + week(df[i]) : i \in DOMAIN df})
        group(k) == SelectSeq(df, LAMBDA r : year(r) * 100 + week(r) = k)
    IN [columns |-> {"year", "week", "messages", "active_users"},
        rows |-> [i \in DOMAIN keys |->
            [year |-> keys[i] \div 100,
             week |-> keys[i] % 100,
             messages |-> Len(group(keys[i])),
             active_users |-> Cardinality(
                {group(keys[i])[k].user_uuid : k \in DOMAIN group(keys[i])})]]]

\* UsageAnalytics.get_user_detail(user_uuid)
get_user_detail(data, user_uuid) ==
    IF ~HasColumn(data.conversations, "user_uuid") THEN Raise
    ELSE IF ~HasColumn(data.messages, "user_uuid") THEN Raise
    ELSE
    LET user_convs == SelectSeq(data.conversations.rows,
                                LAMBDA r : r.user_uuid = user_uuid)
        user_msgs == SelectSeq(data.messages.rows, LAMBDA r : r.user_uuid = user_uuid)
        human_msgs == SelectSeq(user_msgs, LAMBDA r : r.sender = "human")
        assistant_msgs == SelectSeq(user_msgs, LAMBDA r : r.sender = "assistant")
        stamps == {user_msgs[i].created_at : i \in DOMAIN user_msgs}
    IN [total_conversations |-> Len(user_convs),
        total_messages |-> Len(user_msgs),
        human_messages |-> Len(human_msgs),
        assistant_messages |-> Len(assistant_msgs),
        first_activity |-> IF Len(user_msgs) > 0 THEN Some(SetMin(stamps)) ELSE Nothing,
        last_activity |-> IF Len(user_msgs) > 0 THEN Some(SetMax(stamps)) ELSE Nothing,
        avg_messages_per_conv |->
            IF Len(user_convs) > 0 THEN Frac(Len(user_msgs), Len(user_convs)) ELSE Num(0),
        conversations |-> user_convs]

\* re.IGNORECASE on one character.
Lower(c) == CASE c = "A" -> "a" [] c = "B" -> "b" [] OTHER -> c

\* re.search(pat, text, re.IGNORECASE) for a pattern of ordinary characters
\* and '.', which stands for any character.
re_search(pat, text) ==
    \E o \in 0..(Len(text) - Len(pat)) :
        \A i \in DOMAIN pat : pat[i] = "." \/ Lower(pat[i]) = Lower(text[o + i])

\* Python's (pat.lower() in text.lower()): pat taken literally.
literal_search(pat, text) ==
    \E o \in 0..(Len(text) - Len(pat)) :
        \A i \in DOMAIN pat : Lower(pat[i]) = Lower(text[o + i])

\* str.contains with na=True: a null value counts as a match.
str_contains_null_matches(value, pat) == value = Nothing \/ re_search(pat, value[1])

\* Series.str.contains(pat, case=False, na=False) on one value: pat is a
\* regular expression (regex=True is the default), a null value gives False.
str_contains(value, pat) == value # Nothing /\ re_search(pat, value[1])

Reverse(s) == [i \in DOMAIN s |-> s[Len(s) + 1 - i]]

\* sort_values that leaves the rows in their order.
sort_values_unsorted(rows, col, ascending) == rows

\* DataFrame.sort_values(col, ascending=...): rows of equal key keep their order.
sort_values(rows, col, ascending) ==
    LET ks == AscSeq({rows[i][col] : i \in DOMAIN rows})
        order == IF ascending THEN ks ELSE Reverse(ks)
    IN Concat([i \in DOMAIN order |->
                SelectSeq(rows, LAMBDA r : r[col] = order[i])])

\* The missing full_name of a message whose user has no row in the users table.
NoName == <<>>

\* UsageAnalytics.search_conversations(query, user_uuid)
search_conversations(data, query, user_uuid) ==
    IF Len(data.messages.rows) = 0 THEN DataFrame(<<>>)
    ELSE
    LET df == IF user_uuid # Nothing
              THEN SelectSeq(data.messages.rows, LAMBDA r : r.user_uuid = user_uuid[1])
              ELSE data.messages.rows
        results == SelectSeq(df, LAMBDA r : str_contains(r.text, query))
        \* results.merge(users[['user_uuid', 'full_name']], on='user_uuid', how='left')
        merged(r) ==
            LET matches == SelectSeq(data.users.rows,
                                     LAMBDA u : u.user_uuid = r.user_uuid)
            IN IF matches = <<>> THEN <<r @@ [full_name |-> NoName]>>
               ELSE [i \in DOMAIN matches |->
                        r @@ [full_name |-> matches[i].full_name]]
    IN IF ~({"user_uuid", "full_name"} \subseteq data.users.columns) THEN Raise
       ELSE [columns |-> data.messages.columns \cup {"full_name"},
             rows |-> sort_values(
                        Concat([i \in DOMAIN results |-> merged(results[i])]),
                        "created_at", FALSE)]

\* UsageAnalytics.get_conversation_messages(conv_uuid)
get_conversation_messages(data, conv_uuid) ==
    IF ~HasColumn(data.messages, "conv_uuid") THEN Raise
    ELSE [columns |-> data.messages.columns,
          rows |-> sort_values(
                     SelectSeq(data.messages.rows, LAMBDA r : r.conv_uuid = conv_uuid),
                     "created_at", TRUE)]

\* UsageAnalytics.get_overall_stats
get_overall_stats(data) ==
    LET n_users == Len(data.users.rows)
        n_convs == Len(data.conversations.rows)
        n_msgs == Len(data.messages.rows)
        stamps == {data.messages.rows[i].created_at : i \in DOMAIN data.messages.rows}
    IN [total_users |-> n_users,
        total_conversations |-> n_convs,
        total_messages |-> n_msgs,
        avg_messages_per_user |-> IF n_users > 0 THEN Frac(n_msgs, n_users) ELSE Num(0),
        avg_messages_per_conv |-> IF n_convs > 0 THEN Frac(n_msgs, n_convs) ELSE Num(0),
        date_range |-> [start |-> IF n_msgs > 0 THEN Some(SetMin(stamps)) ELSE Nothing,
                        end |-> IF n_msgs > 0 THEN Some(SetMax(stamps)) ELSE Nothing]]

\* calc_change with the per-user convention: a zero baseline always gives 0.
calc_change_zero_gives_0(old, new) ==
    IF old = 0 THEN Num(0) ELSE Frac((new - old) * 100, old)

\* calc_change without the both-zero case: a zero baseline always gives 100.
calc_change_zero_gives_100(old, new) ==
    IF old = 0 THEN Num(100) ELSE Frac((new - old) * 100, old)

\* --------------------------------------------------- SnapshotComparison
\* compare_overall_stats.calc_change
calc_change(old, new) ==
    IF old = 0 THEN (IF new = 0 THEN Num(0) ELSE Num(100))
    ELSE Frac((new - old) * 100, old)

\* compare_overall_stats with every 'change' taken as before - after.
compare_overall_stats_reversed(data1, data2) ==
    LET stats1 == get_overall_stats(data1)
        stats2 == get_overall_stats(data2)
    IN [snapshot1 |-> data1.snapshot_name,
        snapshot2 |-> data2.snapshot_name,
        users |->
            [before |-> stats1.total_users,
             after |-> stats2.total_users,
             change |-> stats1.total_users - stats2.total_users],
        conversations |->
            [before |-> stats1.total_conversations,
             after |-> stats2.total_conversations,
             change |-> stats1.total_conversations - stats2.total_conversations,
             change_pct |-> calc_change(stats1.total_conversations,
                                        stats2.total_conversations)],
        messages |->
            [before |-> stats1.total_messages,
             after |-> stats2.total_messages,
             change |-> stats1.total_messages - stats2.total_messages,
             change_pct |-> calc_change(stats1.total_messages,
                                        stats2.total_messages)]]

\* SnapshotComparison.compare_overall_stats (data1 before, data2 after)
compare_overall_stats(data1, data2) ==
    LET stats1 == get_overall_stats(data1)
        stats2 == get_overall_stats(data2)
    IN [snapshot1 |-> data1.snapshot_name,
        snapshot2 |-> data2.snapshot_name,
        users |->
            [before |-> stats1.total_users,
             after |-> stats2.total_users,
             change |-> stats2.total_users - stats1.total_users],
        conversations |->
            [before |-> stats1.total_conversations,
             after |-> stats2.total_conversations,
             change |-> stats2.total_conversations - stats1.total_conversations,
             change_pct |-> calc_change(stats1.total_conversations,
                                        stats2.total_conversations)],
        messages |->
            [before |-> stats1.total_messages,
             after |-> stats2.total_messages,
             change |-> stats2.total_messages - stats1.total_messages,
             change_pct |-> calc_change(stats1.total_messages,
                                        stats2.total_messages)]]

\* The lambda with the convention of calc_change: 100 for a change from a
\* missing or zero 'before' count to a nonzero one.
messages_change_pct_as_overall(total_messages, total_messages_prev) ==
    IF total_messages_prev # NaN /\ total_messages_prev.num > 0
    THEN Frac((total_messages * total_messages_prev.den - total_messages_prev.num) * 100,
              total_messages_prev.num)
    ELSE IF total_messages = 0 THEN Num(0) ELSE Num(100)

\* The lambda of compare_user_summary: NaN > 0 is False, so a missing or zero
\* 'before' count gives 0.
messages_change_pct(total_messages, total_messages_prev) ==
    IF total_messages_prev # NaN /\ total_messages_prev.num > 0
    THEN Frac((total_messages * total_messages_prev.den - total_messages_prev.num) * 100,
              total_messages_prev.num)
    ELSE Num(0)

\* One row of summary2 left-joined to the rows of summary1 with the same
\* user_uuid, with the change columns computed on it.
merged_rows(row2, rows1) ==
    LET matches == SelectSeq(rows1, LAMBDA r : r.user_uuid = row2.user_uuid)
        prevs == IF matches = <<>>
                 THEN <<[total_conversations_prev |-> NaN, total_messages_prev |-> NaN]>>
                 ELSE [i \in DOMAIN matches |->
                        [total_conversations_prev |-> Num(matches[i].total_conversations),
                         total_messages_prev |-> Num(matches[i].total_messages)]]
    IN [i \in DOMAIN prevs |->
            row2 @@ prevs[i] @@
            [conversations_change |->
                row2.total_conversations - fillna0(prevs[i].total_conversations_prev).num,
             messages_change |->
                row2.total_messages - fillna0(prevs[i].total_messages_prev).num,
             messages_change_pct |->
                messages_change_pct(row2.total_messages, prevs[i].total_messages_prev)]]

\* SnapshotComparison.compare_user_summary
compare_user_summary(data1, data2) ==
    LET summary1 == get_user_summary(data1)
        summary2 == get_user_summary(data2)
    IN IF summary1 = Raise \/ summary2 = Raise THEN Raise
       ELSE [columns |-> summary2.columns \cup
                {"total_conversations_prev", "total_messages_prev",
                 "conversations_change", "messages_change", "messages_change_pct"},
             rows |-> Concat([i \in DOMAIN summary2.rows |->
                                merged_rows(summary2.rows[i], summary1.rows)])]

\* get_new_users without the negation: the users of the second snapshot
\* that the first one has too.
get_new_users_keeps_known(data1, data2) ==
    IF ~HasColumn(data1.users, "user_uuid") THEN Raise
    ELSE IF ~HasColumn(data2.users, "user_uuid") THEN Raise
    ELSE LET users1_ids == Range(ColumnValues(data1.users, "user_uuid"))
         IN [columns |-> data2.users.columns,
             rows |-> SelectSeq(data2.users.rows,
                                LAMBDA r : r.user_uuid \in users1_ids)]

\* SnapshotComparison.get_new_users
get_new_users(data1, data2) ==
    IF ~HasColumn(data1.users, "user_uuid") THEN Raise
    ELSE IF ~HasColumn(data2.users, "user_uuid") THEN Raise
    ELSE LET users1_ids == Range(ColumnValues(data1.users, "user_uuid"))
         IN [columns |-> data2.users.columns,
             rows |-> SelectSeq(data2.users.rows,
                                LAMBDA r : r.user_uuid \notin users1_ids)]

\* SnapshotComparison.get_inactive_users
get_inactive_users(data1, data2) ==
    IF ~HasColumn(data1.messages, "user_uuid") THEN Raise
    ELSE IF ~HasColumn(data2.messages, "user_uuid") THEN Raise
    ELSE LET active_users1 == Range(ColumnValues(data1.messages, "user_uuid"))
             active_users2 == Range(ColumnValues(data2.messages, "user_uuid"))
             inactive_ids == active_users1 \ active_users2
         IN IF ~HasColumn(data1.users, "user_uuid") THEN Raise
            ELSE [columns |-> data1.users.columns,
                  rows |-> RowsIn(data1.users, "user_uuid", inactive_ids)]

\* ------------------------------------------------------------ the system
\* The dashboard is idle between script runs; one run performs one operation
\* on a loaded dataset (or a pair of snapshots) and shows its result.
Idle == [op |-> "idle"]

\* The datasets the dashboard builds a UsageAnalytics on.
Datasets == {Snapshot(f) : f \in Folders} \cup {Cumulative}

\* The range bounds the date input offers: none, or the time of a message.
DateInputs == {Nothing, Some(Created(1)), Some(Created(2))}

\* What is typed into the search box, and the user filter next to it.
Queries == {<<>>, <<"a", "b">>, <<"a", ".">>, <<"B">>}
UserFilters == {Nothing} \cup {Some(u) : u \in UserIds}

\* The input of a script run that no widget triggered, and what is known of
\* the last run of a browser session that has not run the script yet.
NoInput == [kind |-> "none"]
NoRun ==
    [outcome |-> "none", passed |-> FALSE, input |-> NoInput, loads |-> {},
     switch |-> "none", comparison |-> "none", comparison_tab |-> FALSE]

\* A new browser session: st.session_state without keys, the snapshot
\* selectbox untouched.
NewSession == [session_state |-> <<>>, selectbox |-> Nothing, run |-> NoRun]

Init ==
    /\ store \in [DataFolders -> Docs]
    /\ result = Idle
    /\ session = NewSession

GetUserSummary(d) ==
    /\ result = Idle
    /\ Loadable(d)
    /\ result' = [op |-> "get_user_summary", on |-> d,
                  val |-> get_user_summary(Dataset(d))]
    /\ UNCHANGED <<store, session>>

GetOverallStats(d) ==
    /\ result = Idle
    /\ Loadable(d)
    /\ result' = [op |-> "get_overall_stats", on |-> d,
                  val |-> get_overall_stats(Dataset(d))]
    /\ UNCHANGED <<store, session>>

GetDailyUsage(d, start_date, end_date) ==
    /\ result = Idle
    /\ Loadable(d)
    /\ result' = [op |-> "get_daily_usage", on |-> d,
                  start_date |-> start_date, end_date |-> end_date,
                  val |-> get_daily_usage(Dataset(d), start_date, end_date)]
    /\ UNCHANGED <<store, session>>

GetWeeklyUsage(d) ==
    /\ result = Idle
    /\ Loadable(d)
    /\ result' = [op |-> "get_weekly_usage", on |-> d,
                  val |-> get_weekly_usage(Dataset(d))]
    /\ UNCHANGED <<store, session>>

GetUserDetail(d, user_uuid) ==
    /\ result = Idle
    /\ Loadable(d)
    /\ result' = [op |-> "get_user_detail", on |-> d, user_uuid |-> user_uuid,
                  val |-> get_user_detail(Dataset(d), user_uuid)]
    /\ UNCHANGED <<store, session>>

SearchConversations(d, query, user_uuid) ==
    /\ result = Idle
    /\ Loadable(d)
    /\ result' = [op |-> "search_conversations", on |-> d,
                  query |-> query, user_uuid |-> user_uuid,
                  val |-> search_conversations(Dataset(d), query, user_uuid)]
    /\ UNCHANGED <<store, session>>

GetConversationMessages(d, conv_uuid) ==
    /\ result = Idle
    /\ Loadable(d)
    /\ result' = [op |-> "get_conversation_messages", on |-> d,
                  conv_uuid |-> conv_uuid,
                  val |-> get_conversation_messages(Dataset(d), conv_uuid)]
    /\ UNCHANGED <<store, session>>

CompareOverallStats(a, b) ==
    /\ result = Idle
    /\ result' = [op |-> "compare_overall_stats", before |-> a, after |-> b,
                  val |-> compare_overall_stats(load_all(a), load_all(b))]
    /\ UNCHANGED <<store, session>>

CompareUserSummary(a, b) ==
    /\ result = Idle
    /\ result' = [op |-> "compare_user_summary", before |-> a, after |-> b,
                  val |-> compare_user_summary(load_all(a), load_all(b))]
    /\ UNCHANGED <<store, session>>

GetNewUsers(a, b) ==
    /\ result = Idle
    /\ result' = [op |-> "get_new_users", before |-> a, after |-> b,
                  val |-> get_new_users(load_all(a), load_all(b))]
    /\ UNCHANGED <<store, session>>

GetInactiveUsers(a, b) ==
    /\ result = Idle
    /\ result' = [op |-> "get_inactive_users", before |-> a, after |-> b,
                  val |-> get_inactive_users(load_all(a), load_all(b))]
    /\ UNCHANGED <<store, session>>

\* The next script run starts from the idle dashboard.
Rerun ==
    /\ result # Idle
    /\ result' = Idle
    /\ UNCHANGED <<store, session>>

Next ==
    \/ \E d \in Datasets : GetUserSummary(d)
    \/ \E d \in Datasets : GetOverallStats(d)
    \/ \E d \in Datasets, s \in DateInputs, e \in DateInputs : GetDailyUsage(d, s, e)
    \/ \E d \in Datasets : GetWeeklyUsage(d)
    \/ \E d \in Datasets, u \in UserIds : GetUserDetail(d, u)
    \/ \E d \in Datasets, q \in Queries, u \in UserFilters : SearchConversations(d, q, u)
    \/ \E d \in Datasets, c \in ConvIds : GetConversationMessages(d, c)
    \/ \E a \in Folders : \E b \in Folders \ {a} : CompareOverallStats(a, b)
    \/ \E a \in Folders : \E b \in Folders \ {a} : CompareUserSummary(a, b)
    \/ \E a \in Folders : \E b \in Folders \ {a} : GetNewUsers(a, b)
    \/ \E a \in Folders : \E b \in Folders \ {a} : GetInactiveUsers(a, b)
    \/ Rerun

Spec == Init /\ [][Next]_vars

\* ------------------------------------------------- the cumulative loader
\* The loader run on any data directory: folders of any name, each holding
\* an export or files that do not load.
LoadCumulativeData ==
    /\ result = Idle
    /\ result' = [op |-> "load_cumulative_data", val |-> load_cumulative_data]
    /\ UNCHANGED <<store, session>>

FindSnapshotFolders ==
    /\ result = Idle
    /\ result' = [op |-> "find_snapshot_folders", val |-> find_snapshot_folders]
    /\ UNCHANGED <<store, session>>

LoadAllSnapshots ==
    /\ result = Idle
    /\ result' = [op |-> "load_all_snapshots", val |-> load_all_snapshots]
    /\ UNCHANGED <<store, session>>

LoadSingleSnapshot(folder_name) ==
    /\ result = Idle
    /\ result' = [op |-> "load_single_snapshot", folder_name |-> folder_name,
                  val |-> load_single_snapshot(folder_name)]
    /\ UNCHANGED <<store, session>>

\* The two files of a folder are uploaded through the file uploader.
LoadFromUploadedFiles(folder) ==
    /\ result = Idle
    /\ result' = [op |-> "load_from_uploaded_files", folder |-> folder,
                  val |-> load_from_uploaded_files(folder)]
    /\ UNCHANGED <<store, session>>

\* A folder name that no data directory holds.
AbsentName == <<3>>

\* Data directories of three entries: whole exports, subdirectories that lack
\* a file, plain files.
CrowdedDirectories == {D \in SUBSET FolderNames : Cardinality(D) = 3}

InitLoader ==
    /\ store \in UNION {[D -> Docs \cup Unloadable \cup NotSnapshots] : D \in Directories}
                 \cup UNION {[D -> {FullDoc} \cup NotSnapshots] : D \in CrowdedDirectories}
                 \cup {NoDirectory}
    /\ result = Idle
    /\ session = NewSession

NextLoader ==
    \/ LoadCumulativeData
    \/ FindSnapshotFolders
    \/ LoadAllSnapshots
    \/ \E name \in Entries \cup {AbsentName} : LoadSingleSnapshot(name)
    \/ \E f \in Folders : LoadFromUploadedFiles(f)
    \/ Rerun

LoaderSpec == InitLoader /\ [][NextLoader]_vars

\* ------------------------------------------------- the dashboard session
\* One browser session of app.py.  Each script run goes from the password
\* check to the tabs, or ends early at st.stop() or st.rerun(); the snapshot
\* files do not change while the session lasts.
CORRECT_PASSWORD == "claudeai"

\* What is typed into the password field when the login button is clicked.
Passwords == {"claudeai", "claude", ""}

\* st.session_state as the function from its keys to their values:
\* st.session_state.get(key, default) and st.session_state.key = value.
Get(ss, key, default) == IF key \in DOMAIN ss THEN ss[key] ELSE default
Put(ss, key, value) ==
    [k \in DOMAIN ss \cup {key} |-> IF k = key THEN value ELSE ss[k]]

\* check_password that lets any click of the login button in.
check_password_any_click(ss, input) ==
    LET s1 == IF "authenticated" \notin DOMAIN ss
              THEN Put(ss, "authenticated", FALSE) ELSE ss
    IN IF s1.authenticated THEN [ss |-> s1, passed |-> TRUE, rerun |-> FALSE]
       ELSE IF input.kind = "login"
       THEN [ss |-> Put(s1, "authenticated", TRUE), passed |-> FALSE, rerun |-> TRUE]
       ELSE [ss |-> s1, passed |-> FALSE, rerun |-> FALSE]

\* check_password(): True for an authenticated session; otherwise the login
\* form, and on a click with the right password the flag is set and the
\* script is rerun.
check_password(ss, input) ==
    LET s1 == IF "authenticated" \notin DOMAIN ss
              THEN Put(ss, "authenticated", FALSE) ELSE ss
    IN IF s1.authenticated THEN [ss |-> s1, passed |-> TRUE, rerun |-> FALSE]
       ELSE IF input.kind = "login" /\ input.password = CORRECT_PASSWORD
       THEN [ss |-> Put(s1, "authenticated", TRUE), passed |-> FALSE, rerun |-> TRUE]
       ELSE [ss |-> s1, passed |-> FALSE, rerun |-> FALSE]

\* The initialisation of data_loaded, data and snapshot_list.
init_session_state(ss) ==
    IF "data_loaded" \notin DOMAIN ss
    THEN Put(Put(Put(ss, "data_loaded", FALSE), "data", NoneVal), "snapshot_list", <<>>)
    ELSE ss

\* load_data_cached: DataLoader(path).load_all(); the cache returns what the
\* load itself would, the files being unchanged.
load_data_cached(folder) == load_all(folder)

\* find_embedded_snapshots: the names of the subdirectories of the data path
\* that hold both files, greatest first.
find_embedded_snapshots ==
    DescSeq({f \in Entries : is_dir(f) /\ \A file \in JsonFiles : file_exists(f, file)})

\* The automatic load of the latest snapshot while no data is loaded.
auto_load(ss) ==
    LET embedded == find_embedded_snapshots IN
    IF ss.data_loaded \/ embedded = <<>> THEN [ss |-> ss, loads |-> {}]
    ELSE LET listed == Put(ss, "snapshot_list", embedded)
             data == load_data_cached(embedded[1])
         IN [ss |-> IF data = Raise THEN listed
                    ELSE Put(Put(listed, "data", data), "data_loaded", TRUE),
             loads |-> {embedded[1]}]

\* The value of the snapshot selectbox: the user's choice, by default the
\* option at the index of current_snapshot (the first when it is no option).
selectbox_value(ss, selectbox, embedded) ==
    IF selectbox # Nothing /\ selectbox[1] \in Range(embedded) THEN selectbox[1]
    ELSE IF ss.current_snapshot \in Range(embedded) THEN ss.current_snapshot
    ELSE embedded[1]

\* The snapshot change handler that marks the new snapshot as current and
\* leaves comparison mode before it loads the data.
change_snapshot_marks_first(ss, selected_snapshot) ==
    IF selected_snapshot = ss.current_snapshot
    THEN [ss |-> ss, switch |-> "none", loads |-> {}]
    ELSE LET marked == Put(Put(ss, "current_snapshot", selected_snapshot),
                           "show_comparison", FALSE)
             data == load_data_cached(selected_snapshot)
         IN IF data = Raise
            THEN [ss |-> marked, switch |-> "failed", loads |-> {selected_snapshot}]
            ELSE [ss |-> Put(Put(marked, "data", data), "data_loaded", TRUE),
                  switch |-> "done", loads |-> {selected_snapshot}]

\* The snapshot change handler that leaves show_comparison as it is.
change_snapshot_keeps_comparison(ss, selected_snapshot) ==
    IF selected_snapshot = ss.current_snapshot
    THEN [ss |-> ss, switch |-> "none", loads |-> {}]
    ELSE LET data == load_data_cached(selected_snapshot) IN
         IF data = Raise
         THEN [ss |-> ss, switch |-> "failed", loads |-> {selected_snapshot}]
         ELSE [ss |-> Put(Put(Put(ss, "data", data), "data_loaded", TRUE),
                          "current_snapshot", selected_snapshot),
               switch |-> "done", loads |-> {selected_snapshot}]

\* The snapshot change handler: when the selectbox differs from
\* current_snapshot the snapshot is loaded; a load that raises is reported
\* and nothing is assigned.
change_snapshot(ss, selected_snapshot) ==
    IF selected_snapshot = ss.current_snapshot
    THEN [ss |-> ss, switch |-> "none", loads |-> {}]
    ELSE LET data == load_data_cached(selected_snapshot) IN
         IF data = Raise
         THEN [ss |-> ss, switch |-> "failed", loads |-> {selected_snapshot}]
         ELSE [ss |-> Put(Put(Put(Put(ss, "data", data), "data_loaded", TRUE),
                              "current_snapshot", selected_snapshot),
                          "show_comparison", FALSE),
               switch |-> "done", loads |-> {selected_snapshot}]

\* The options of the compare selectbox that offer every snapshot.
compare_options_all(embedded, selected_snapshot) == embedded

\* The options of the compare selectbox: the snapshots other than the
\* selected one.
compare_options(embedded, selected_snapshot) ==
    SelectSeq(embedded, LAMBDA s : s # selected_snapshot)

\* SnapshotComparison(data1, data2)
SnapshotComparison(data1, data2) ==
    [analytics1 |-> data1, analytics2 |-> data2,
     snapshot1_name |-> data1.snapshot_name, snapshot2_name |-> data2.snapshot_name]

\* The handler of the comparison button: both snapshots are loaded, then the
\* comparison and the current data are stored; a load that raises is
\* reported and nothing is assigned.
run_comparison(ss, selected_snapshot, compare_snapshot) ==
    LET prev_data == load_data_cached(compare_snapshot)
        curr_data == load_data_cached(selected_snapshot)
    IN IF prev_data = Raise
       THEN [ss |-> ss, comparison |-> "failed", loads |-> {compare_snapshot}]
       ELSE IF curr_data = Raise
       THEN [ss |-> ss, comparison |-> "failed",
             loads |-> {compare_snapshot, selected_snapshot}]
       ELSE [ss |-> Put(Put(Put(Put(ss,
                        "comparison", SnapshotComparison(prev_data, curr_data)),
                        "show_comparison", TRUE),
                        "data", curr_data),
                        "data_loaded", TRUE),
             comparison |-> "done",
             loads |-> {compare_snapshot, selected_snapshot}]

\* The comparison tab is among the tabs.
comparison_tab(ss) ==
    Get(ss, "show_comparison", FALSE) /\ "comparison" \in DOMAIN ss

\* One run of the script on a session, given the widget input that triggered
\* it.  The run record keeps what the run did: whether the password check
\* passed, the snapshots it tried to load, what the two handlers did, and
\* how it ended (the login form, st.rerun(), the notice that no data is
\* loaded, or the dashboard content).
script(s, input) ==
    LET auth == check_password(s.session_state, input)
        selectbox == IF input.kind = "select" THEN Some(input.snapshot) ELSE s.selectbox
        ended(ss, outcome, loads, switch, comparison) ==
            [session_state |-> ss, selectbox |-> selectbox,
             run |-> [outcome |-> outcome, passed |-> auth.passed, input |-> input,
                      loads |-> loads, switch |-> switch, comparison |-> comparison,
                      comparison_tab |-> outcome = "content" /\ comparison_tab(ss)]]
        shown(ss, loads, switch, comparison) ==
            ended(ss, IF ss.data_loaded THEN "content" ELSE "no data",
                  loads, switch, comparison)
    IN IF ~auth.passed
       THEN ended(auth.ss, IF auth.rerun THEN "rerun" ELSE "login", {}, "none", "none")
       ELSE
       LET auto == auto_load(init_session_state(auth.ss))
           embedded == find_embedded_snapshots
       IN IF embedded = <<>> THEN shown(auto.ss, auto.loads, "none", "none")
          ELSE
          LET s3 == IF "current_snapshot" \notin DOMAIN auto.ss
                    THEN Put(auto.ss, "current_snapshot", embedded[1]) ELSE auto.ss
              selected_snapshot == selectbox_value(s3, selectbox, embedded)
              changed == change_snapshot(s3, selected_snapshot)
              loads4 == auto.loads \cup changed.loads
          IN IF changed.switch = "done"
             THEN ended(changed.ss, "rerun", loads4, "done", "none")
             ELSE IF /\ Len(embedded) >= 2
                     /\ input.kind = "compare"
                     /\ input.compare_snapshot
                            \in Range(compare_options(embedded, selected_snapshot))
             THEN LET compared == run_comparison(changed.ss, selected_snapshot,
                                                 input.compare_snapshot)
                  IN IF compared.comparison = "done"
                     THEN ended(compared.ss, "rerun", loads4 \cup compared.loads,
                                changed.switch, "done")
                     ELSE shown(compared.ss, loads4 \cup compared.loads,
                                changed.switch, "failed")
             ELSE shown(changed.ss, loads4, changed.switch, "none")

\* The sidebar was drawn by the last run, so its widgets can be used.
SidebarShown == session.run.outcome \in {"content", "no data"}

\* A run that no widget of the model triggers: the first run of the session,
\* the run st.rerun() asks for, a reload of the page.
PageRun ==
    /\ session' = script(session, NoInput)
    /\ UNCHANGED <<store, result>>

\* The login button is clicked with a password typed in.
Login(password) ==
    /\ session.run.outcome = "login"
    /\ session' = script(session, [kind |-> "login", password |-> password])
    /\ UNCHANGED <<store, result>>

\* A snapshot is chosen in the snapshot selectbox.
SelectSnapshot(snapshot) ==
    /\ SidebarShown
    /\ snapshot \in Range(find_embedded_snapshots)
    /\ session' = script(session, [kind |-> "select", snapshot |-> snapshot])
    /\ UNCHANGED <<store, result>>

\* The comparison button is clicked with a snapshot chosen to compare with.
ClickCompare(compare_snapshot) ==
    /\ SidebarShown
    /\ Len(find_embedded_snapshots) >= 2
    /\ compare_snapshot
          \in Range(compare_options(find_embedded_snapshots,
                        selectbox_value(session.session_state, session.selectbox,
                                        find_embedded_snapshots)))
    /\ session' = script(session, [kind |-> "compare",
                                   compare_snapshot |-> compare_snapshot])
    /\ UNCHANGED <<store, result>>

\* The data directory of a deployment: up to three folders, each a whole
\* export, an empty export, or files that do not load.
SessionFolders == {<<1, 1>>, <<1, 2>>, <<2, 1>>}
SessionDocs == {FullDoc, SnapshotJson({}, {}, {}), Corrupt}

InitSession ==
    /\ store \in UNION {[D -> SessionDocs] : D \in SUBSET SessionFolders}
                 \cup {NoDirectory}
    /\ result = Idle
    /\ session = NewSession

NextSession ==
    \/ PageRun
    \/ \E password \in Passwords : Login(password)
    \/ \E snapshot \in SessionFolders : SelectSnapshot(snapshot)
    \/ \E compare_snapshot \in SessionFolders : ClickCompare(compare_snapshot)

SessionSpec == InitSession /\ [][NextSession]_vars

\* ================================================================ claims
\* What the exported JSON itself says, read without the loader.
JsonUserIds(doc) == {doc.users[i].uuid : i \in DOMAIN doc.users}
JsonConvCount(doc) == Len(doc.conversations)
JsonTurnCount(doc) ==
    SumSeq([i \in DOMAIN doc.conversations |-> Len(doc.conversations[i].chat_messages)])
\* The chat turns of the conversations owned by user u.
JsonTurnsOf(doc, u) ==
    SumSeq([i \in DOMAIN doc.conversations |->
        IF doc.conversations[i].account.uuid = u
        THEN Len(doc.conversations[i].chat_messages) ELSE 0])
\* The users who sent at least one message.
JsonSenders(doc) ==
    {doc.conversations[i].account.uuid :
        i \in {k \in DOMAIN doc.conversations : doc.conversations[k].chat_messages # <<>>}}
\* Every conversation of the export belongs to a user of the export.
JsonOwnersListed(doc) ==
    \A i \in DOMAIN doc.conversations :
        doc.conversations[i].account.uuid \in JsonUserIds(doc)

ColumnSum(df, col) == SumSeq(ColumnValues(df, col))

JsonConvIds(doc) == {doc.conversations[i].uuid : i \in DOMAIN doc.conversations}
JsonMsgIds(doc) ==
    UNION {{doc.conversations[i].chat_messages[k].uuid :
                k \in DOMAIN doc.conversations[i].chat_messages} :
           i \in DOMAIN doc.conversations}

\* The identifiers of one kind that an export holds.
JsonIds(doc, key) ==
    CASE key = "user_uuid" -> JsonUserIds(doc)
      [] key = "conv_uuid" -> JsonConvIds(doc)
      [] key = "msg_uuid" -> JsonMsgIds(doc)

\* The cumulative table that is de-duplicated on an identifier.
TableOf(key) ==
    CASE key = "user_uuid" -> "users"
      [] key = "conv_uuid" -> "conversations"
      [] key = "msg_uuid" -> "messages"

Keys == {"user_uuid", "conv_uuid", "msg_uuid"}

\* The folders of the directory whose export loads.
LoadedFolders == {f \in Folders : load_all(f) # Raise}

\* The loaded folders whose export holds identifier id.
Holders(key, id) == {f \in LoadedFolders : id \in JsonIds(store[f], key)}

\* C1: for every loaded dataset (one snapshot or the cumulative merge) the
\* total_messages of the rows of get_user_summary() add up to
\* get_overall_stats()['total_messages'].  Stated for the runs in which the
\* summary is returned and every snapshot lists the owner of each of its
\* conversations.
C1_SummaryTotalsAddUpToOverall ==
    (/\ result.op = "get_user_summary"
     /\ result.val # Raise
     /\ \A f \in Folders : JsonOwnersListed(store[f]))
    => ColumnSum(result.val, "total_messages")
         = get_overall_stats(Dataset(result.on)).total_messages

\* C2: get_daily_usage() without start and end returns rows whose 'messages'
\* add up to get_overall_stats()['total_messages'] of the same dataset.
C2_DailyMessagesAddUpToOverall ==
    (/\ result.op = "get_daily_usage"
     /\ result.start_date = Nothing
     /\ result.end_date = Nothing)
    => /\ result.val # Raise
       /\ ColumnSum(result.val, "messages")
            = get_overall_stats(Dataset(result.on)).total_messages

\* C2 witness: an unfiltered daily usage of several dates, one of them with
\* more than one message.
C2_Witness ==
    /\ result.op = "get_daily_usage"
    /\ result.start_date = Nothing
    /\ result.end_date = Nothing
    /\ Len(result.val.rows) >= 2
    /\ \E i \in DOMAIN result.val.rows : result.val.rows[i].messages >= 2

\* C3: get_user_summary() has a row for every user of the users table, and
\* every row carries the four metrics total_conversations, total_messages,
\* human and assistant, each 0 for a user without activity, also when the
\* message table is empty or lacks one of the two sender roles.
C3_EveryUserRowCarriesFourMetrics ==
    (result.op = "get_user_summary" /\ result.val # Raise)
    => LET data == Dataset(result.on)
           active == {data.conversations.rows[i].user_uuid :
                        i \in DOMAIN data.conversations.rows}
                     \cup {data.messages.rows[i].user_uuid :
                        i \in DOMAIN data.messages.rows}
       IN /\ ColumnValues(result.val, "user_uuid")
                = ColumnValues(data.users, "user_uuid")
          /\ {"total_conversations", "total_messages", "human", "assistant"}
                \subseteq result.val.columns
          /\ \A i \in DOMAIN result.val.rows :
                LET r == result.val.rows[i] IN
                r.user_uuid \notin active =>
                    /\ r.total_conversations = 0
                    /\ r.total_messages = 0
                    /\ r.human = 0
                    /\ r.assistant = 0

\* The percentage p (a fraction) equals (after - before) / before * 100.
IsPercentChange(p, before, after) ==
    /\ p.den > 0
    /\ p.num * before = (after - before) * 100 * p.den

\* The percent change compare_overall_stats() has to report for a total.
OverallPctAsClaimed(p, before, after) ==
    /\ (before = 0 /\ after = 0) => p = Num(0)
    /\ (before = 0 /\ after # 0) => p = Num(100)
    /\ before # 0 => IsPercentChange(p, before, after)

\* C4: compare_overall_stats() reports, for a zero 'before' total, a percent
\* change of 0 when 'after' is 0 too and exactly 100 when 'after' is nonzero;
\* for a nonzero 'before' total it reports (after - before) / before * 100.
C4_OverallPercentChange ==
    result.op = "compare_overall_stats"
    => LET before == store[result.before]
           after == store[result.after]
       IN /\ OverallPctAsClaimed(result.val.conversations.change_pct,
                                 JsonConvCount(before), JsonConvCount(after))
          /\ OverallPctAsClaimed(result.val.messages.change_pct,
                                 JsonTurnCount(before), JsonTurnCount(after))

\* C4 witness: a comparison whose message total starts at zero and ends
\* nonzero while its conversation total changes from a nonzero baseline.
C4_Witness ==
    /\ result.op = "compare_overall_stats"
    /\ result.val.messages.before = 0
    /\ result.val.messages.after > 0
    /\ result.val.messages.change_pct = Num(100)
    /\ result.val.conversations.before > 0
    /\ result.val.conversations.after > result.val.conversations.before

\* C5 as written: compare_overall_stats() reports before, after, absolute
\* change and percent change for each of users, conversations and messages.
C5_FourValuesForAllThreeTotals ==
    result.op = "compare_overall_stats"
    => \A t \in {"users", "conversations", "messages"} :
          {"before", "after", "change", "change_pct"} \subseteq DOMAIN result.val[t]

\* C5 amended: compare_overall_stats() reports before, after and absolute
\* change (after - before) for each of users, conversations and messages, and
\* a percent change for conversations and messages only.
C5_OverallComparisonValues ==
    result.op = "compare_overall_stats"
    => LET before == store[result.before]
           after == store[result.after]
           v == result.val
           Reports(t, b, a) ==
                /\ v[t].before = b
                /\ v[t].after = a
                /\ v[t].change = a - b
       IN /\ DOMAIN v.users = {"before", "after", "change"}
          /\ DOMAIN v.conversations = {"before", "after", "change", "change_pct"}
          /\ DOMAIN v.messages = {"before", "after", "change", "change_pct"}
          /\ Reports("users", Len(before.users), Len(after.users))
          /\ Reports("conversations", JsonConvCount(before), JsonConvCount(after))
          /\ Reports("messages", JsonTurnCount(before), JsonTurnCount(after))

\* C5 witness: a comparison in which all three totals change.
C5_Witness ==
    /\ result.op = "compare_overall_stats"
    /\ result.val.users.change # 0
    /\ result.val.conversations.change # 0
    /\ result.val.messages.change # 0

\* C6: when the 'before' and 'after' datasets are identical,
\* compare_overall_stats() yields change 0 for users, conversations and
\* messages and every reported percent change is 0.
C6_IdenticalSnapshotsNoChange ==
    (result.op = "compare_overall_stats" /\ store[result.before] = store[result.after])
    => /\ result.val.users.change = 0
       /\ result.val.conversations.change = 0
       /\ result.val.messages.change = 0
       /\ result.val.conversations.change_pct = Num(0)
       /\ result.val.messages.change_pct = Num(0)

\* C6 witness: two identical snapshots that hold conversations but no
\* message are compared.
C6_Witness ==
    /\ result.op = "compare_overall_stats"
    /\ store[result.before] = store[result.after]
    /\ result.val.conversations.before > 0
    /\ result.val.messages.before = 0

\* C7: compare_user_summary() returns one row per user of the 'after'
\* snapshot, and for a user without a row in 'before' the 'before'
\* conversation and message counts are reported as 0 (not null), so that
\* messages_change equals the user's 'after' total_messages.
C7_MissingBeforeReportedAsZero ==
    (result.op = "compare_user_summary" /\ result.val # Raise)
    => /\ ColumnValues(result.val, "user_uuid")
            = [i \in DOMAIN store[result.after].users |->
                    store[result.after].users[i].uuid]
       /\ \A i \in DOMAIN result.val.rows :
            LET r == result.val.rows[i] IN
            r.user_uuid \notin JsonUserIds(store[result.before]) =>
                /\ r.total_conversations_prev = Num(0)
                /\ r.total_messages_prev = Num(0)
                /\ r.messages_change = r.total_messages

\* C8: in compare_user_summary() a user's messages_change_pct is 0 whenever
\* the user's 'before' message count is 0 or absent (even if the 'after'
\* count is nonzero) and (after - before) / before * 100 otherwise.
C8_UserPercentChange ==
    (result.op = "compare_user_summary" /\ result.val # Raise)
    => \A i \in DOMAIN result.val.rows :
          LET r == result.val.rows[i]
              before == store[result.before]
              prev == JsonTurnsOf(before, r.user_uuid)
              after == JsonTurnsOf(store[result.after], r.user_uuid)
          IN IF r.user_uuid \notin JsonUserIds(before) \/ prev = 0
             THEN r.messages_change_pct = Num(0)
             ELSE IsPercentChange(r.messages_change_pct, prev, after)

\* C8 witness: one user goes from no 'before' row to messages (0 percent, where
\* compare_overall_stats would say 100), another from a nonzero count to a
\* different count.
C8_Witness ==
    /\ result.op = "compare_user_summary"
    /\ result.val # Raise
    /\ \E i \in DOMAIN result.val.rows :
          /\ result.val.rows[i].total_messages_prev = NaN
          /\ result.val.rows[i].total_messages > 0
          /\ result.val.rows[i].messages_change_pct = Num(0)
    /\ \E i \in DOMAIN result.val.rows :
          /\ result.val.rows[i].total_messages_prev # NaN
          /\ result.val.rows[i].total_messages_prev.num > 0
          /\ result.val.rows[i].messages_change_pct # Num(0)

\* C9: get_inactive_users() returns exactly the user identifiers that sent a
\* message in 'before' and none in 'after'; senders alone decide, so a sender
\* without a row in the 'before' users table is still reported.  Stated for
\* the runs in which a table is returned.
C9_InactiveAreSendersGoneSilent ==
    (result.op = "get_inactive_users" /\ result.val # Raise)
    => Range(ColumnValues(result.val, "user_uuid"))
         = JsonSenders(store[result.before]) \ JsonSenders(store[result.after])

\* C10: get_new_users() returns exactly the rows of the 'after' users table
\* whose user_uuid does not occur in the 'before' users table.
C10_NewUsersAreAfterMinusBefore ==
    result.op = "get_new_users"
    => /\ result.val # Raise
       /\ result.val.rows
            = SelectSeq(load_users(store[result.after]).rows,
                LAMBDA r : r.user_uuid \notin JsonUserIds(store[result.before]))

\* C11: after load_cumulative_data(), every user_uuid, conv_uuid and msg_uuid
\* that occurs in a snapshot that loaded occurs in exactly one row of the
\* corresponding cumulative table, an identifier that only an older snapshot
\* holds included.
C11_CumulativeIdsExactlyOnce ==
    (result.op = "load_cumulative_data" /\ LoadedFolders # {})
    => /\ result.val \notin {Raise, NoneVal}
       /\ \A key \in Keys :
            LET rows == result.val[TableOf(key)].rows IN
            \A f \in LoadedFolders : \A id \in JsonIds(store[f], key) :
                Cardinality({i \in DOMAIN rows : rows[i][key] = id}) = 1

\* C11 witness: two snapshots are merged that share a user and a message,
\* while a conversation exists only in the one that is read last.
C11_Witness ==
    /\ result.op = "load_cumulative_data"
    /\ Len(find_snapshot_folders) = 2
    /\ LoadedFolders = Folders
    /\ \E id \in UserIds : Holders("user_uuid", id) = Folders
    /\ \E id \in MsgIds : Holders("msg_uuid", id) = Folders
    /\ \E id \in ConvIds : Holders("conv_uuid", id) = {find_snapshot_folders[2]}
    /\ Len(result.val.conversations.rows) = 2

\* C12: when an identifier occurs in several snapshots, the row
\* load_cumulative_data() keeps comes from the most recent of them, the
\* snapshot with the latest snapshot date.
C12_KeptRowIsFromLatestDate ==
    (result.op = "load_cumulative_data" /\ result.val \notin {Raise, NoneVal})
    => \A key \in Keys :
          LET rows == result.val[TableOf(key)].rows IN
          \A i \in DOMAIN rows :
              \A f \in Holders(key, rows[i][key]) :
                  LET kept == _extract_date_from_folder(rows[i].snapshot)
                      other == _extract_date_from_folder(f)
                  IN other # Nothing => (kept # Nothing /\ kept[1] >= other[1])

\* C13: get_weekly_usage() buckets every message under the pair (ISO year,
\* ISO week) of its timestamp: each row counts the messages of one such
\* pair, also for a message of the last days of December that belongs to
\* week 1 of the next ISO year.
C13_WeeklyBucketsByIsoYearAndWeek ==
    result.op = "get_weekly_usage"
    => LET msgs == Dataset(result.on).messages.rows
           iso(r) == isocalendar(DateOf(r.created_at))
       IN /\ \A i \in DOMAIN msgs :
                \E k \in DOMAIN result.val.rows :
                    /\ result.val.rows[k].year = iso(msgs[i]).year
                    /\ result.val.rows[k].week = iso(msgs[i]).week
          /\ \A k \in DOMAIN result.val.rows :
                result.val.rows[k].messages =
                    Len(SelectSeq(msgs, LAMBDA r :
                        /\ iso(r).year = result.val.rows[k].year
                        /\ iso(r).week = result.val.rows[k].week))

\* Referential integrity of the exports: in every snapshot folder each
\* conversation belongs to a user of that snapshot's users.json.
OwnersListed == \A f \in Folders : JsonOwnersListed(store[f])

\* A dataset without any user, conversation or message.
IsEmptyDataset(data) ==
    /\ data.users.rows = <<>>
    /\ data.conversations.rows = <<>>
    /\ data.messages.rows = <<>>

\* The operations on one dataset and on a pair of snapshots.
DatasetOps ==
    {"get_user_summary", "get_daily_usage", "get_weekly_usage", "get_user_detail",
     "search_conversations", "get_conversation_messages", "get_overall_stats"}
ComparisonOps ==
    {"compare_overall_stats", "compare_user_summary", "get_new_users",
     "get_inactive_users"}

\* C14: on an empty dataset (no user, no conversation, no message, as loaded
\* from empty JSON lists) no aggregation raises: every operation of
\* UsageAnalytics and of SnapshotComparison returns a result, a table
\* without rows or totals of zero.
C14_EmptyDatasetNeverRaises ==
    LET OnEmpty ==
            \/ /\ result.op \in DatasetOps
               /\ IsEmptyDataset(Dataset(result.on))
            \/ /\ result.op \in ComparisonOps
               /\ IsEmptyDataset(load_all(result.before))
               /\ IsEmptyDataset(load_all(result.after))
    IN OnEmpty =>
        /\ result.val # Raise
        /\ "rows" \in DOMAIN result.val => result.val.rows = <<>>
        /\ "total_messages" \in DOMAIN result.val => result.val.total_messages = 0

\* The average avg is the quotient n / d.
IsQuotient(avg, n, d) == avg.den > 0 /\ avg.num * d = n * avg.den

\* C15: no average divides by zero: get_user_detail(u) returns
\* avg_messages_per_conv = 0 for a user without conversations and
\* get_overall_stats() returns 0 for avg_messages_per_user without users and
\* for avg_messages_per_conv without conversations; otherwise each average
\* is the message count divided by its denominator.  Stated for exports
\* whose conversations belong to listed users.
C15_AveragesNeverDivideByZero ==
    OwnersListed =>
    /\ result.op = "get_user_detail" =>
         LET data == Dataset(result.on)
             convs == Len(SelectSeq(data.conversations.rows,
                                    LAMBDA r : r.user_uuid = result.user_uuid))
             msgs == Len(SelectSeq(data.messages.rows,
                                   LAMBDA r : r.user_uuid = result.user_uuid))
         IN /\ result.val # Raise
            /\ IF convs = 0 THEN result.val.avg_messages_per_conv = Num(0)
               ELSE IsQuotient(result.val.avg_messages_per_conv, msgs, convs)
    /\ result.op = "get_overall_stats" =>
         LET data == Dataset(result.on)
             users == Len(data.users.rows)
             convs == Len(data.conversations.rows)
             msgs == Len(data.messages.rows)
         IN /\ IF users = 0 THEN result.val.avg_messages_per_user = Num(0)
               ELSE IsQuotient(result.val.avg_messages_per_user, msgs, users)
            /\ IF convs = 0 THEN result.val.avg_messages_per_conv = Num(0)
               ELSE IsQuotient(result.val.avg_messages_per_conv, msgs, convs)

\* Timestamp t lies in the range [start, end], each bound optional.
InRange(t, start, end) ==
    /\ start # Nothing => start[1] <= t
    /\ end # Nothing => t <= end[1]

\* C16: get_daily_usage(start, end) counts exactly the messages whose
\* timestamp t satisfies start <= t <= end, both bounds inclusive and each
\* optional: there is one row per date that has an in-range message, and its
\* 'messages' and 'active_users' count the in-range messages of that date only.
C16_DailyUsageCountsInRangeOnly ==
    result.op = "get_daily_usage"
    => LET msgs == SelectSeq(Dataset(result.on).messages.rows,
                LAMBDA r : InRange(r.created_at, result.start_date, result.end_date))
           on(d) == SelectSeq(msgs, LAMBDA r : DateOf(r.created_at) = d)
           rows == result.val.rows
       IN /\ result.val # Raise
          /\ {rows[i].date : i \in DOMAIN rows}
                = {DateOf(msgs[i].created_at) : i \in DOMAIN msgs}
          /\ \A i, k \in DOMAIN rows : rows[i].date = rows[k].date => i = k
          /\ \A i \in DOMAIN rows :
                /\ rows[i].messages = Len(on(rows[i].date))
                /\ rows[i].active_users =
                     Cardinality({on(rows[i].date)[k].user_uuid :
                                    k \in DOMAIN on(rows[i].date)})

\* C16 witness: both bounds are given, a message lies on each bound and is
\* counted, and another message lies outside the range.
C16_Witness ==
    /\ result.op = "get_daily_usage"
    /\ result.start_date # Nothing
    /\ result.end_date # Nothing
    /\ result.start_date[1] < result.end_date[1]
    /\ LET msgs == Dataset(result.on).messages.rows
       IN /\ \E i \in DOMAIN msgs : msgs[i].created_at = result.start_date[1]
          /\ \E i \in DOMAIN msgs : msgs[i].created_at = result.end_date[1]
          /\ \E i \in DOMAIN msgs :
                ~InRange(msgs[i].created_at, result.start_date, result.end_date)
          /\ ColumnSum(result.val, "messages") = Len(msgs) - 1

\* The messages search_conversations(query, user_uuid) has to return: those
\* of the user, when one is given, whose text is not null and contains the
\* query as a literal substring, case ignored.
LiteralMatches(data, query, user_uuid) ==
    SelectSeq(data.messages.rows, LAMBDA r :
        /\ user_uuid # Nothing => r.user_uuid = user_uuid[1]
        /\ r.text # Nothing
        /\ literal_search(query, r.text[1]))

\* C17: search_conversations(query, user_uuid) returns exactly the messages
\* whose text contains query as a case-insensitive literal substring,
\* restricted to the messages of user_uuid when one is given; a message
\* with null text never matches.  Stated for the runs in which a table is
\* returned.
C17_SearchIsLiteralSubstring ==
    (result.op = "search_conversations" /\ result.val # Raise)
    => LET want == LiteralMatches(Dataset(result.on), result.query, result.user_uuid)
       IN {result.val.rows[i].msg_uuid : i \in DOMAIN result.val.rows}
            = {want[i].msg_uuid : i \in DOMAIN want}

\* C18: search_conversations("") without a user restriction returns every
\* message of the dataset that has a non-null text, each exactly once, in
\* every dataset whose conversations belong to listed users.
C18_EmptyQueryReturnsAllTexts ==
    (/\ result.op = "search_conversations"
     /\ result.query = <<>>
     /\ result.user_uuid = Nothing
     /\ OwnersListed)
    => LET msgs == Dataset(result.on).messages.rows
           rows == result.val.rows
       IN /\ result.val # Raise
          /\ \A i \in DOMAIN msgs :
                Cardinality({k \in DOMAIN rows : rows[k].msg_uuid = msgs[i].msg_uuid})
                    = IF msgs[i].text # Nothing THEN 1 ELSE 0
          /\ \A k \in DOMAIN rows :
                \E i \in DOMAIN msgs : msgs[i].msg_uuid = rows[k].msg_uuid

\* C18 witness: the empty query on a dataset that holds two messages with
\* text and one with null text returns the two.
C18_Witness ==
    /\ result.op = "search_conversations"
    /\ result.query = <<>>
    /\ result.user_uuid = Nothing
    /\ OwnersListed
    /\ result.val # Raise
    /\ LET msgs == Dataset(result.on).messages.rows
       IN /\ Len(msgs) = 3
          /\ \E i \in DOMAIN msgs : msgs[i].text = Nothing
    /\ Len(result.val.rows) = 2

\* C19: the rows search_conversations() returns are ordered by created_at
\* descending: of two consecutive rows the first is not older than the second.
C19_SearchResultsNewestFirst ==
    (result.op = "search_conversations" /\ result.val # Raise)
    => \A i \in DOMAIN result.val.rows :
          i > 1 => result.val.rows[i - 1].created_at >= result.val.rows[i].created_at

\* C19 witness: a search returns two messages that the message table holds
\* oldest first.
C19_Witness ==
    /\ result.op = "search_conversations"
    /\ result.val # Raise
    /\ Len(result.val.rows) = 2
    /\ result.val.rows[1].created_at > result.val.rows[2].created_at
    /\ LET msgs == Dataset(result.on).messages.rows
       IN \E i, k \in DOMAIN msgs :
            /\ i < k
            /\ msgs[i].msg_uuid = result.val.rows[2].msg_uuid
            /\ msgs[k].msg_uuid = result.val.rows[1].msg_uuid

\* C20: get_conversation_messages(conv_uuid) returns exactly the messages
\* whose conv_uuid is the argument, all of them and no others (none for a
\* conversation without messages), ordered by created_at ascending.  Stated
\* for exports whose conversations belong to listed users.
C20_ConversationMessagesInOrder ==
    (result.op = "get_conversation_messages" /\ OwnersListed)
    => LET msgs == Dataset(result.on).messages.rows
           want == SelectSeq(msgs, LAMBDA r : r.conv_uuid = result.conv_uuid)
           rows == result.val.rows
       IN /\ result.val # Raise
          /\ Len(rows) = Len(want)
          /\ {rows[i].msg_uuid : i \in DOMAIN rows}
                = {want[i].msg_uuid : i \in DOMAIN want}
          /\ \A i \in DOMAIN rows :
                i > 1 => rows[i - 1].created_at <= rows[i].created_at

\* The three tables the documents of an export give, and those of a dataset.
SourceTables(doc) ==
    [users |-> load_users(doc),
     conversations |-> DataFrame(conv_records(doc)),
     messages |-> DataFrame(msg_records(doc))]
TablesOf(data) ==
    [users |-> data.users, conversations |-> data.conversations,
     messages |-> data.messages]
TableNames == {"users", "conversations", "messages"}

\* The entries whose load raises: a file is missing, unreadable or malformed.
LoadFails(f) == store[f] \in Unloadable \cup NotSnapshots

\* The folder names the rows of a cumulative dataset are tagged with.
SnapshotTags(data) ==
    UNION {{data[t].rows[i].snapshot : i \in DOMAIN data[t].rows} : t \in TableNames}

\* C21: a snapshot whose load raises contributes nothing.  load_all_snapshots()
\* holds exactly the folders that load, each with its three whole tables;
\* load_cumulative_data() has no row of a folder that fails and every
\* identifier of every folder that loads, in all three tables;
\* load_single_snapshot() and load_from_uploaded_files() give the three whole
\* tables or None.
C21_FailedSnapshotContributesNothing ==
    /\ result.op = "load_all_snapshots"
       => /\ DOMAIN result.val.snapshots = {f \in Folders : ~LoadFails(f)}
          /\ \A f \in DOMAIN result.val.snapshots :
                TablesOf(result.val.snapshots[f]) = SourceTables(store[f])
    /\ result.op = "load_cumulative_data"
       => IF \A f \in Folders : LoadFails(f) THEN result.val = NoneVal
          ELSE /\ result.val \notin {NoneVal, Raise}
               /\ \A f \in SnapshotTags(result.val) : f \in Folders /\ ~LoadFails(f)
               /\ \A f \in Folders : ~LoadFails(f) =>
                    \A key \in Keys : \A id \in JsonIds(store[f], key) :
                        \E i \in DOMAIN result.val[TableOf(key)].rows :
                            result.val[TableOf(key)].rows[i][key] = id
    /\ result.op = "load_single_snapshot"
       => IF result.folder_name \in Entries /\ ~LoadFails(result.folder_name)
          THEN TablesOf(result.val) = SourceTables(store[result.folder_name])
          ELSE result.val = NoneVal
    /\ result.op = "load_from_uploaded_files"
       => IF ~LoadFails(result.folder)
          THEN TablesOf(result.val) = SourceTables(store[result.folder])
          ELSE result.val = NoneVal

\* C21 witness: of two snapshot folders the newer has an intact users.json
\* and a malformed conversations.json; the loaders return the older alone.
C21_Witness ==
    /\ result.op \in {"load_all_snapshots", "load_cumulative_data"}
    /\ Len(find_snapshot_folders) = 2
    /\ store[find_snapshot_folders[1]] = Malformed(FullDoc, "conversations.json")
    /\ ~LoadFails(find_snapshot_folders[2])
    /\ Len(store[find_snapshot_folders[2]].users) > 0
    /\ IF result.op = "load_all_snapshots"
       THEN DOMAIN result.val.snapshots = {find_snapshot_folders[2]}
       ELSE SnapshotTags(result.val) = {find_snapshot_folders[2]}

\* C22: after a single-snapshot load, the message_count of each conversation
\* row is the number of chat turns of the conversation's source record, and
\* the message table has exactly one row per chat turn, carrying the
\* conv_uuid and the user_uuid of its conversation; in the cumulative merge
\* each kept conversation row still has the count of the source record of
\* the folder it was read from.
C22_MessageCountIsSourceTurnCount ==
    /\ (result.op = "load_single_snapshot" /\ result.val # NoneVal)
       => LET doc == store[result.folder_name]
              convs == result.val.conversations.rows
              msgs == result.val.messages.rows
          IN /\ Len(convs) = Len(doc.conversations)
             /\ \A i \in DOMAIN convs :
                  /\ convs[i].conv_uuid = doc.conversations[i].uuid
                  /\ convs[i].message_count = Len(doc.conversations[i].chat_messages)
             /\ Len(msgs) = JsonTurnCount(doc)
             /\ \A i \in DOMAIN doc.conversations :
                  \A k \in DOMAIN doc.conversations[i].chat_messages :
                    LET hits == {j \in DOMAIN msgs :
                                    msgs[j].msg_uuid = doc.conversations[i].chat_messages[k].uuid}
                    IN /\ Cardinality(hits) = 1
                       /\ \A j \in hits :
                            /\ msgs[j].conv_uuid = doc.conversations[i].uuid
                            /\ msgs[j].user_uuid = doc.conversations[i].account.uuid
    /\ (result.op = "load_cumulative_data" /\ result.val \notin {NoneVal, Raise})
       => \A i \in DOMAIN result.val.conversations.rows :
            LET row == result.val.conversations.rows[i]
                doc == store[row.snapshot]
            IN \E k \in DOMAIN doc.conversations :
                  /\ doc.conversations[k].uuid = row.conv_uuid
                  /\ row.message_count = Len(doc.conversations[k].chat_messages)

\* C22 witness: the merge keeps a conversation row of the newer snapshot
\* with its stored count of one turn, while the merged message table holds
\* two messages of that conversation, one of them from the older snapshot.
C22_Witness ==
    /\ result.op = "load_cumulative_data"
    /\ result.val \notin {NoneVal, Raise}
    /\ \E i \in DOMAIN result.val.conversations.rows :
         LET row == result.val.conversations.rows[i] IN
         /\ row.message_count = 1
         /\ Len(SelectSeq(result.val.messages.rows,
                          LAMBDA m : m.conv_uuid = row.conv_uuid)) = 2

Field(ss, key) == IF key \in DOMAIN ss THEN Some(ss[key]) ELSE Nothing

Authenticated == Get(session.session_state, "authenticated", FALSE)

\* C24: a script run in which the load of a newly selected snapshot fails
\* leaves the session state as it was: data, current_snapshot, data_loaded
\* and show_comparison keep their values.
C24_FailedSwitchLeavesSessionUnchanged ==
    [][session'.run.switch = "failed"
        => \A key \in {"data", "current_snapshot", "data_loaded", "show_comparison"} :
              Field(session'.session_state, key) = Field(session.session_state, key)]_vars

\* C24 witness: with a comparison on display, a snapshot that does not load
\* was selected; the session still shows the comparison and the old data.
C24_Witness ==
    /\ session.run.switch = "failed"
    /\ session.run.outcome = "content"
    /\ session.run.comparison_tab
    /\ session.selectbox # Some(session.session_state.current_snapshot)
    /\ session.session_state.data.snapshot_name = session.session_state.current_snapshot

\* C25: whenever show_comparison is true and a comparison object exists, the
\* 'after' dataset of the comparison is the session's data, and its 'before'
\* snapshot is neither the current snapshot nor the one the selectbox shows.
C25_ComparisonIsOfDisplayedData ==
    comparison_tab(session.session_state)
    => LET ss == session.session_state IN
       /\ ss.comparison.analytics2 = ss.data
       /\ ss.comparison.snapshot1_name # ss.current_snapshot
       /\ ss.comparison.snapshot1_name
            # selectbox_value(ss, session.selectbox, find_embedded_snapshots)
       /\ ss.comparison.analytics1 = load_all(ss.comparison.snapshot1_name)

\* C25 witness: the comparison tab is drawn in a directory of three
\* snapshots, for a current snapshot that is not the latest.
C25_Witness ==
    /\ session.run.comparison_tab
    /\ Len(find_embedded_snapshots) = 3
    /\ session.session_state.current_snapshot # find_embedded_snapshots[1]
    /\ session.session_state.comparison.snapshot2_name
          = session.session_state.current_snapshot

\* C26: a successful switch of the selected snapshot leaves comparison mode
\* off; the comparison tab comes back only through a run of the comparison
\* button; and a comparison on display is always one whose 'after' snapshot
\* is the current snapshot.
C26_SwitchLeavesComparisonMode ==
    /\ [][/\ session'.run.switch = "done"
             => ~comparison_tab(session'.session_state)
          /\ (~comparison_tab(session.session_state)
              /\ comparison_tab(session'.session_state))
             => session'.run.comparison = "done"]_vars
    /\ [](comparison_tab(session.session_state)
          => session.session_state.comparison.snapshot2_name
                = session.session_state.current_snapshot)

\* C26 witness: a switch succeeded while the comparison made for the snapshot
\* selected before is still stored; it is not shown.
C26_Witness ==
    /\ session.run.switch = "done"
    /\ "comparison" \in DOMAIN session.session_state
    /\ session.session_state.comparison.snapshot2_name
          # session.session_state.current_snapshot
    /\ ~comparison_tab(session.session_state)

\* C27: a run loads a snapshot or produces the dashboard only when the
\* password check passed; the session starts unauthenticated, becomes
\* authenticated only in a run in which the login button was clicked with
\* the configured password, and never returns to unauthenticated.
C27_NothingBeforeAuthentication ==
    /\ ~Authenticated
    /\ []((session.run.loads # {} \/ session.run.outcome \in {"content", "no data"})
          => (session.run.passed /\ Authenticated))
    /\ [][/\ Authenticated => Authenticated'
          /\ (~Authenticated /\ Authenticated')
             => /\ session'.run.input.kind = "login"
                /\ session'.run.input.password = CORRECT_PASSWORD]_vars

\* C27 witness: after a wrong and then the right password the session is
\* authenticated, has loaded a snapshot and shows the dashboard.
C27_Witness ==
    /\ Authenticated
    /\ session.run.passed
    /\ session.run.loads # {}
    /\ session.run.outcome = "content"

\* C28: for every dataset and every user u of its users table, the
\* total_messages of u's row of get_user_summary() equals
\* get_user_detail(u)['total_messages'], which equals human_messages +
\* assistant_messages.  Stated for the runs in which both calls return and
\* every snapshot lists the owner of each of its conversations.
C28_SummaryAndDetailCountsAgree ==
    (/\ result.op = "get_user_detail"
     /\ OwnersListed
     /\ result.val # Raise
     /\ get_user_summary(Dataset(result.on)) # Raise)
    => LET summary == get_user_summary(Dataset(result.on)).rows IN
       /\ \A i \in DOMAIN summary :
            summary[i].user_uuid = result.user_uuid
            => summary[i].total_messages = result.val.total_messages
       /\ result.val.total_messages
            = result.val.human_messages + result.val.assistant_messages

\* The user identifiers of the rows of a table of users.
UserIdsOf(df) == {df.rows[i].user_uuid : i \in DOMAIN df.rows}

\* C29: for any pair of snapshots, no user identifier is both in the result
\* of get_new_users() and in the result of get_inactive_users(), whenever
\* both return a table.
C29_NewAndInactiveAreDisjoint ==
    result.op \in {"get_new_users", "get_inactive_users"}
    => LET before == load_all(result.before)
           after == load_all(result.after)
           new == IF result.op = "get_new_users" THEN result.val
                  ELSE get_new_users(before, after)
           inactive == IF result.op = "get_inactive_users" THEN result.val
                       ELSE get_inactive_users(before, after)
       IN (new # Raise /\ inactive # Raise)
          => UserIdsOf(new) \cap UserIdsOf(inactive) = {}

\* C29 witness: between two snapshots one user is new and another one has
\* stopped sending messages; each is reported by one of the two calls only.
C29_Witness ==
    /\ result.op = "get_new_users"
    /\ result.val # Raise
    /\ get_inactive_users(load_all(result.before), load_all(result.after)) # Raise
    /\ UserIdsOf(result.val) # {}
    /\ UserIdsOf(get_inactive_users(load_all(result.before), load_all(result.after))) # {}

====
